---- MODULE Spec2Model ----
(***************************************************************************)
(* Model of the feed distribution engine of src/server.py: the sequenced   *)
(* ring (FeedRun), the playback and live producers, and the per-client     *)
(* session (WSServer.handler, _live_loop, _heartbeat_loop).                *)
(*                                                                         *)
(* The program runs on one cooperative event loop: the code between two    *)
(* awaits is atomic, so each action below is the code from one suspension  *)
(* point to the next.  A frame is put on the wire inside ws.send, before   *)
(* that send suspends.  A send fails once the client has closed the        *)
(* transport; _send swallows the failure and its caller goes on.           *)
(* frames[s] is what client s has received; skipped[s] records the seqs a  *)
(* fetch of session s asked get_range for and the ring no longer held;     *)
(* first[s] is the kind of the first frame of client s; send_failures[s]   *)
(* counts the sends of session s that failed; wire[s] is the kind (text or *)
(* binary) of each message of frames[s].  main_pc is the position of main, *)
(* from the validation of its arguments to websockets.serve.               *)
(***************************************************************************)
EXTENDS Integers, Sequences, FiniteSets, TLC

\* ---------------------------------------------------------------- bounds
MaxAppends == 3       \* total samples any producer appends
MaxCap == 2           \* ring capacities 1..MaxCap are explored
MaxHeartbeats == 1    \* heartbeat frames per session
MaxFrom == 3          \* largest from_seq a client sends
MaxTs == 2            \* timestamps 1..MaxTs of the rows of a polled table
DbLimit == 2          \* rows one poll returns at most (LIMIT 1000, scaled down)

\* ----------------------------------------------------- configuration
HistoryChunk == 1     \* args.history_chunk
LiveBatch == 1        \* args.live_batch

Sessions == {1, 2}
AllSeries == {"", "a", "b"}
None == 0 - 1          \* final_seq: Optional[int] = None
FromSeqs == (0 - 1)..MaxFrom

VARIABLES
    \* FeedRun
    ring, next_seq, series_next_seq, done, final_seq, new_event, ring_capacity,
    \* producer
    mode, samples, idx,
    \* handler locals, per session
    pc, from_seq, min_seq, wm_seq, start, resume_truncated, delta_end, rest,
    \* _live_loop and _heartbeat_loop, per session
    live_pc, last_sent, to_send, hb_pc, woken, series_state, gap_log,
    \* transport, per session
    open, frames, requested, heartbeats, skipped, first, send_failures, wire,
    \* main: WSServer.run is set, args.ws_format, the position of main, and
    \* args.ring_capacity, args.history_chunk, args.live_batch
    run_active, ws_format, main_pc, args,
    \* a caller of get_range: its arguments and its result
    rd_lo, rd_hi, rd_out,
    \* a caller of wait_for_new_after: its position, its argument and its result
    w_pc, w_seq, w_ret,
    \* db_live_producer and one table it polls: the rows of the table, the
    \* cursor (last_tick_ns), and the row each appended seq was converted from
    db_table, db_cursor, db_log

runVars == <<ring, next_seq, series_next_seq, done, final_seq, new_event, ring_capacity>>
prodVars == <<mode, samples, idx>>
handlerVars == <<pc, from_seq, min_seq, wm_seq, start, resume_truncated, delta_end, rest>>
taskVars == <<live_pc, last_sent, to_send, hb_pc, woken, series_state, gap_log>>
wireVars == <<open, frames, requested, heartbeats, skipped, first, send_failures, wire>>
mainVars == <<run_active, ws_format, main_pc, args>>
readVars == <<rd_lo, rd_hi, rd_out, w_pc, w_seq, w_ret>>
dbVars == <<db_table, db_cursor, db_log>>
vars == <<runVars, prodVars, handlerVars, taskVars, wireVars, mainVars, readVars, dbVars>>

\* ---------------------------------------------------------------- helpers
Max(a, b) == IF a > b THEN a ELSE b
Min(a, b) == IF a < b THEN a ELSE b

SeqsOf(xs) == [i \in 1..Len(xs) |-> xs[i].seq]

\* mutant of Head_n: a slice is one sample longer than n
Head_n_OneMore(xs, n) == SubSeq(xs, 1, Min(n + 1, Len(xs)))

\* chunked(seq_list, n): the first slice and what follows it
Head_n(xs, n) == SubSeq(xs, 1, Min(n, Len(xs)))
Tail_n(xs, n) == SubSeq(xs, Min(n, Len(xs)) + 1, Len(xs))

\* ---------------------------------------------------------------- FeedRun
\* FeedRun.min_seq
MinSeqOf(r, nxt) == IF Len(r) = 0 THEN nxt ELSE nxt - Len(r)
MinSeq == MinSeqOf(ring, next_seq)

\* FeedRun.last_seq
LastSeqOf(nxt) == nxt - 1
LastSeq == LastSeqOf(next_seq)

\* mutant of Push: a deque without maxlen, which never evicts
Push_NoEvict(r, x, cap) == Append(r, x)

\* mutant of Push: a full ring keeps its oldest samples and drops the new one
Push_KeepOldest(r, x, cap) == IF Len(r) >= cap THEN r ELSE Append(r, x)

\* deque(maxlen=ring_capacity).append
Push(r, x, cap) == IF Len(r) >= cap THEN Append(Tail(r), x) ELSE Append(r, x)

\* mutant of AppendSample: seq is the sample's position in the ring
AppendSample_SeqFromLen(st, sid, cap) ==
    LET sseq == IF sid # "" THEN st.series_next_seq[sid] ELSE 0
        s == [seq |-> Len(st.ring) + 1, series_id |-> sid, series_seq |-> sseq]
    IN [ring |-> Push(st.ring, s, cap),
        next_seq |-> st.next_seq + 1,
        series_next_seq |-> IF sid # ""
                            THEN [st.series_next_seq EXCEPT ![sid] = sseq + 1]
                            ELSE st.series_next_seq]

\* mutant of AppendSample: the samples of the same series already in the ring
\* are stamped again with the new series_seq
AppendSample_Restamp(st, sid, cap) ==
    LET sseq == IF sid # "" THEN st.series_next_seq[sid] ELSE 0
        s == [seq |-> st.next_seq, series_id |-> sid, series_seq |-> sseq]
        old == [i \in 1..Len(st.ring) |->
                   IF st.ring[i].series_id = sid
                   THEN [st.ring[i] EXCEPT !.series_seq = sseq] ELSE st.ring[i]]
    IN [ring |-> Push(old, s, cap),
        next_seq |-> st.next_seq + 1,
        series_next_seq |-> IF sid # ""
                            THEN [st.series_next_seq EXCEPT ![sid] = sseq + 1]
                            ELSE st.series_next_seq]

\* FeedRun._append on the run state st = [ring, next_seq, series_next_seq];
\* `if sid:` skips the series counter when series_id is empty, and the sample
\* then has no series_seq (0 here)
AppendSample(st, sid, cap) ==
    LET sseq == IF sid # "" THEN st.series_next_seq[sid] ELSE 0
        s == [seq |-> st.next_seq, series_id |-> sid, series_seq |-> sseq]
    IN [ring |-> Push(st.ring, s, cap),
        next_seq |-> st.next_seq + 1,
        series_next_seq |-> IF sid # ""
                            THEN [st.series_next_seq EXCEPT ![sid] = sseq + 1]
                            ELSE st.series_next_seq]

RECURSIVE AppendAll(_, _, _)
AppendAll(st, sids, cap) ==
    IF Len(sids) = 0 THEN st
    ELSE AppendAll(AppendSample(st, Head(sids), cap), Tail(sids), cap)

\* mutant of GetRange: the slice stops one sample early
GetRange_DropLast(start_seq, end_seq) ==
    IF start_seq > end_seq THEN <<>>
    ELSE LET base == MinSeq
             last == LastSeq
             lo == Max(start_seq, base)
             hi == Min(end_seq, last)
         IN IF lo > hi THEN <<>>
            ELSE SubSeq(ring, lo - base + 1, hi - base)

\* FeedRun.get_range
GetRange(start_seq, end_seq) ==
    IF start_seq > end_seq THEN <<>>
    ELSE LET base == MinSeq
             last == LastSeq
             lo == Max(start_seq, base)
             hi == Min(end_seq, last)
         IN IF lo > hi THEN <<>>
            ELSE SubSeq(ring, lo - base + 1, hi - base + 1)

\* the seqs of lo..hi that get_range(lo, hi) no longer finds in the ring
Evicted(lo, hi) == {q \in lo..hi : q < MinSeq}

\* the arguments a caller passes to get_range
QueryRange == 1..(MaxAppends + 1)

\* a call run.get_range(lo, hi)
Query(lo, hi) ==
    /\ rd_lo' = lo
    /\ rd_hi' = hi
    /\ rd_out' = GetRange(lo, hi)
    /\ UNCHANGED <<runVars, prodVars, handlerVars, taskVars, wireVars, mainVars, dbVars>>
    /\ UNCHANGED <<w_pc, w_seq, w_ret>>

\* ---------------------------------------------------------------- new_event
\* the tasks that call wait_for_new_after: the live task of each session, and
\* 0, a caller that passes any seq
Waiters == Sessions \cup {0}

\* waiter w is suspended in new_event.wait()
Waiting(w) == IF w = 0 THEN w_pc = "waiting" ELSE live_pc[w] = "wait"

\* mutant of EventSet: set() resolves the future of one waiter only
EventSet_WakeOne ==
    /\ new_event' = TRUE
    /\ woken' = IF new_event \/ ~\E w \in Waiters : Waiting(w) THEN woken
                ELSE LET one == CHOOSE w \in Waiters : Waiting(w)
                     IN [woken EXCEPT ![one] = TRUE]

\* asyncio.Event.set(): when the flag is clear it is set and the future of every
\* task inside wait() is resolved
EventSet ==
    /\ new_event' = TRUE
    /\ woken' = IF new_event THEN woken
                ELSE [w \in Waiters |-> woken[w] \/ Waiting(w)]

\* ---------------------------------------------------------------- producers
\* mutant of AppendBatch: an append waits while a session is inside a send
AppendBatch_WaitsForSend(sids) ==
    LET st == AppendAll([ring |-> ring, next_seq |-> next_seq,
                         series_next_seq |-> series_next_seq], sids, ring_capacity)
    IN /\ \A s \in Sessions : live_pc[s] # "send"
       /\ ring' = st.ring
       /\ next_seq' = st.next_seq
       /\ series_next_seq' = st.series_next_seq
       /\ EventSet

\* a batch of appends between two awaits of a producer; new_event.set()
AppendBatch(sids) ==
    LET st == AppendAll([ring |-> ring, next_seq |-> next_seq,
                         series_next_seq |-> series_next_seq], sids, ring_capacity)
    IN /\ ring' = st.ring
       /\ next_seq' = st.next_seq
       /\ series_next_seq' = st.series_next_seq
       /\ EventSet

\* main lines 1749-1800: asyncio.create_task has created the producer's task
ProducerStarted == main_pc \in {"producing", "serving"}

\* playback_from_memory: one pass of the while loop
PlaybackBatchSizes ==
    IF mode = "unpaced"
    THEN {Min(Max(1, LiveBatch * 4), Len(samples) - idx)}
    ELSE 1..(Len(samples) - idx)

\* the sequence xs in reverse order
Reversed(xs) == [i \in 1..Len(xs) |-> xs[Len(xs) + 1 - i]]

\* mutant of PlaybackStep: the rows of a batch are appended last to first
PlaybackStep_Reversed(k) ==
    /\ ProducerStarted
    /\ mode \in {"paced", "unpaced"}
    /\ ~done
    /\ idx < Len(samples)
    /\ k \in PlaybackBatchSizes
    /\ AppendBatch(Reversed(SubSeq(samples, idx + 1, idx + k)))
    /\ idx' = idx + k
    /\ UNCHANGED <<done, final_seq, ring_capacity, mode, samples>>
    /\ UNCHANGED <<handlerVars, live_pc, last_sent, hb_pc, to_send, series_state, gap_log, wireVars>>
    /\ UNCHANGED <<mainVars, dbVars, readVars>>

PlaybackStep(k) ==
    /\ ProducerStarted
    /\ mode \in {"paced", "unpaced"}
    /\ ~done
    /\ idx < Len(samples)
    /\ k \in PlaybackBatchSizes
    /\ AppendBatch(SubSeq(samples, idx + 1, idx + k))
    /\ idx' = idx + k
    /\ UNCHANGED <<done, final_seq, ring_capacity, mode, samples>>
    /\ UNCHANGED <<handlerVars, live_pc, last_sent, hb_pc, to_send, series_state, gap_log, wireVars>>
    /\ UNCHANGED <<mainVars, dbVars, readVars>>

\* mutant of PlaybackDone: final_seq is set to next_seq instead of last_seq()
PlaybackDone_NextSeq ==
    /\ ProducerStarted
    /\ mode \in {"paced", "unpaced"}
    /\ ~done
    /\ idx = Len(samples)
    /\ done' = TRUE
    /\ final_seq' = next_seq
    /\ EventSet
    /\ UNCHANGED <<ring, next_seq, series_next_seq, ring_capacity, prodVars>>
    /\ UNCHANGED <<handlerVars, live_pc, last_sent, hb_pc, to_send, series_state, gap_log, wireVars>>
    /\ UNCHANGED <<mainVars, dbVars, readVars>>

\* mutant of PlaybackDone: the run is marked done while one sample is pending
PlaybackDone_Early ==
    /\ ProducerStarted
    /\ mode \in {"paced", "unpaced"}
    /\ ~done
    /\ idx >= Len(samples) - 1
    /\ done' = TRUE
    /\ final_seq' = LastSeq
    /\ EventSet
    /\ UNCHANGED <<ring, next_seq, series_next_seq, ring_capacity, prodVars>>
    /\ UNCHANGED <<handlerVars, live_pc, last_sent, hb_pc, to_send, series_state, gap_log, wireVars>>
    /\ UNCHANGED <<mainVars, dbVars, readVars>>

\* playback_from_memory: the input is drained
PlaybackDone ==
    /\ ProducerStarted
    /\ mode \in {"paced", "unpaced"}
    /\ ~done
    /\ idx = Len(samples)
    /\ done' = TRUE
    /\ final_seq' = LastSeq
    /\ EventSet
    /\ UNCHANGED <<ring, next_seq, series_next_seq, ring_capacity, prodVars>>
    /\ UNCHANGED <<handlerVars, live_pc, last_sent, hb_pc, to_send, series_state, gap_log, wireVars>>
    /\ UNCHANGED <<mainVars, dbVars, readVars>>

\* db_live_producer: the rows of one fetch are appended without an await;
\* samples holds the rows the source yields, in order; the tailer never marks done
DbPoll(k) ==
    /\ ProducerStarted
    /\ mode = "db_live"
    /\ k \in 1..(Len(samples) - idx)
    /\ AppendBatch(SubSeq(samples, idx + 1, idx + k))
    /\ idx' = idx + k
    /\ UNCHANGED <<done, final_seq, ring_capacity, mode, samples>>
    /\ UNCHANGED <<handlerVars, live_pc, last_sent, hb_pc, to_send, series_state, gap_log, wireVars>>
    /\ UNCHANGED <<mainVars, dbVars, readVars>>

\* ---------------------------------------------------------------- live tailer
\* a writer of the database inserts a row into the polled table, with any
\* timestamp; rows are numbered in the order they are inserted
InsertRow(ts) ==
    /\ Cardinality(db_table) < MaxAppends
    /\ db_table' = db_table \cup {[id |-> Cardinality(db_table) + 1, ts |-> ts]}
    /\ UNCHANGED <<db_cursor, db_log>>
    /\ UNCHANGED <<runVars, prodVars, handlerVars, taskVars, wireVars, mainVars, readVars>>

\* mutant of Eligible: WHERE tstamp_ns >= $1
Eligible_Inclusive == {r \in db_table : r.ts >= db_cursor}

\* WHERE tstamp_ns > $1 with $1 = last_tick_ns (lines 1044-1046)
Eligible == {r \in db_table : r.ts > db_cursor}

\* the results conn.fetch may return for ORDER BY tstamp_ns ASC LIMIT n (line
\* 1045): the n rows of lowest timestamp, rows of equal timestamp in any order
FetchResults ==
    LET n == Min(DbLimit, Cardinality(Eligible))
    IN {rows \in [1..n -> Eligible] :
            /\ \A i \in 1..n : \A j \in 1..n : i < j =>
                    (rows[i] # rows[j] /\ rows[i].ts <= rows[j].ts)
            /\ \A r \in Eligible :
                    (\A i \in 1..n : rows[i] # r) => (\A i \in 1..n : rows[i].ts <= r.ts)}

\* db_live_producer lines 1041-1061, for one table: one poll that returns rows;
\* each row moves the cursor to max(cursor, tstamp_ns) and is appended as one
\* sample of its series, without an await
DbFetch ==
    /\ ProducerStarted
    /\ mode = "db_live"
    /\ Eligible # {}
    /\ \E rows \in FetchResults :
          /\ db_cursor' = Max(db_cursor, rows[Len(rows)].ts)
          /\ db_log' = db_log \o [i \in 1..Len(rows) |-> rows[i].id]
          /\ AppendBatch([i \in 1..Len(rows) |-> "a"])
    /\ UNCHANGED <<done, final_seq, ring_capacity, prodVars, db_table>>
    /\ UNCHANGED <<handlerVars, live_pc, last_sent, hb_pc, to_send, series_state, gap_log,
                   wireVars, mainVars, readVars>>

\* ---------------------------------------------------------------- waiting
\* a call run.wait_for_new_after(seq, timeout), lines 151-155: True at once when
\* last_seq > seq, else new_event.clear() and the caller waits
WaitCall(seq) ==
    /\ w_pc = "idle"
    /\ w_seq' = seq
    /\ IF LastSeq > seq
       THEN /\ w_ret' = "true"
            /\ UNCHANGED <<w_pc, new_event, woken>>
       ELSE /\ w_ret' = "none"
            /\ w_pc' = "waiting"
            /\ new_event' = FALSE
            /\ woken' = [woken EXCEPT ![0] = FALSE]
    /\ UNCHANGED <<ring, next_seq, series_next_seq, done, final_seq, ring_capacity,
                   prodVars, handlerVars, live_pc, last_sent, to_send, hb_pc,
                   series_state, gap_log, wireVars, mainVars, dbVars, rd_lo, rd_hi, rd_out>>

\* mutant of WaitWake: a woken caller is told True whatever last_seq is
WaitWake_AlwaysTrue ==
    /\ w_pc = "waiting"
    /\ woken[0]
    /\ w_ret' = "true"
    /\ w_pc' = "idle"
    /\ woken' = [woken EXCEPT ![0] = FALSE]
    /\ UNCHANGED <<runVars, prodVars, handlerVars, live_pc, last_sent, to_send, hb_pc,
                   series_state, gap_log, wireVars, mainVars, dbVars, rd_lo, rd_hi, rd_out, w_seq>>

\* wait_for_new_after line 156: new_event was set; the result is last_seq > seq
WaitWake ==
    /\ w_pc = "waiting"
    /\ woken[0]
    /\ w_ret' = IF LastSeq > w_seq THEN "true" ELSE "false"
    /\ w_pc' = "idle"
    /\ woken' = [woken EXCEPT ![0] = FALSE]
    /\ UNCHANGED <<runVars, prodVars, handlerVars, live_pc, last_sent, to_send, hb_pc,
                   series_state, gap_log, wireVars, mainVars, dbVars, rd_lo, rd_hi, rd_out, w_seq>>

\* wait_for_new_after lines 157-158: the timeout elapsed first
WaitTimeout ==
    /\ w_pc = "waiting"
    /\ w_ret' = "false"
    /\ w_pc' = "idle"
    /\ woken' = [woken EXCEPT ![0] = FALSE]
    /\ UNCHANGED <<runVars, prodVars, handlerVars, live_pc, last_sent, to_send, hb_pc,
                   series_state, gap_log, wireVars, mainVars, dbVars, rd_lo, rd_hi, rd_out, w_seq>>

\* ---------------------------------------------------------------- transport
\* WSServer._send: the frame reaches the client unless the transport has failed;
\* the exception of a failed ws.send is swallowed
Sent(s, f) == [frames EXCEPT ![s] = IF open[s] THEN Append(@, f) ELSE @]

\* send_failures[s]: the calls of ws.send of session s that raised, counted up to 2
Tried(s) == [send_failures EXCEPT ![s] = IF open[s] THEN @ ELSE Min(@ + 1, 2)]

\* mutant of WireKind: in binary mode every frame is encoded as binary
WireKind_AllBinary(f) == IF ws_format = "binary" THEN "binary" ELSE "text"

\* _send lines 864-884: the kind of websocket message frame f is sent as:
\* bytes from _encode_samples_binary, or the str json.dumps returns
WireKind(f) ==
    IF ws_format = "binary" /\ f.type \in {"history", "delta", "live"}
    THEN "binary" ELSE "text"

\* the rows of series "b" are signals whose desired_qty is outside the signed
\* 32-bit range: struct.pack(">i", qty) (line 833) raises struct.error
Unencodable(x) == x.series_id = "b"

\* _encode_samples_binary raises on one of the samples
EncodeFails(xs) == \E i \in 1..Len(xs) : Unencodable(xs[i])

\* await self._send(ws, f); in binary mode a data frame without samples is
\* not sent at all (lines 870-872), nor is one whose encoding raises (lines
\* 874-878: the exception is swallowed and ws.send is not reached)
Send(s, f) ==
    IF ws_format = "binary" /\ f.type \in {"history", "delta", "live"}
                            /\ (Len(f.samples) = 0 \/ EncodeFails(f.samples))
    THEN UNCHANGED <<frames, send_failures, wire>>
    ELSE /\ frames' = Sent(s, f)
         /\ send_failures' = Tried(s)
         /\ wire' = [wire EXCEPT ![s] = IF open[s] THEN Append(@, WireKind(f)) ELSE @]

\* the client closes its side of the connection
ClientClose(s) ==
    /\ pc[s] \notin {"off", "closed"}
    /\ open[s]
    /\ open' = [open EXCEPT ![s] = FALSE]
    /\ UNCHANGED <<runVars, prodVars, handlerVars, taskVars, frames, requested, heartbeats,
                   skipped, first, send_failures, wire>>
    /\ UNCHANGED <<mainVars, dbVars, readVars>>

\* ---------------------------------------------------------------- handler
\* int(msg.get("from_seq") or 1)
IntOr1(N) == IF N = 0 THEN 1 ELSE N

\* handler, from ws.recv() returning a resume frame to the send of init_begin
Resume(s, N) ==
    /\ pc[s] = "await_resume"
    /\ open[s]
    /\ run_active
    /\ LET fs == IntOr1(N) IN
        /\ from_seq' = [from_seq EXCEPT ![s] = fs]
        /\ min_seq' = [min_seq EXCEPT ![s] = MinSeq]
        /\ wm_seq' = [wm_seq EXCEPT ![s] = LastSeq]
        /\ start' = [start EXCEPT ![s] = Max(fs, MinSeq)]
        /\ resume_truncated' = [resume_truncated EXCEPT ![s] = (fs < MinSeq)]
    /\ Send(s, [type |-> "init_begin", wm_seq |-> LastSeq,
                min_seq |-> MinSeq, ring_capacity |-> ring_capacity])
    /\ requested' = [requested EXCEPT ![s] = N]
    /\ first' = [first EXCEPT ![s] = "resume"]
    /\ pc' = [pc EXCEPT ![s] = "init_begin"]
    /\ UNCHANGED <<runVars, prodVars, delta_end, rest, taskVars, open, heartbeats, skipped>>
    /\ UNCHANGED <<mainVars, dbVars, readVars>>

\* the first frames the handler does not take as a resume: none within 15 s,
\* text that json.loads rejects, a value that is no dict or whose type is not
\* "resume", and a resume whose from_seq int() rejects (such as "abc")
BadFirstKinds == {"timeout", "invalid_json", "not_resume", "bad_from_seq"}

\* the reason of the error frame of handler lines 625-645
ErrorReason(kind) ==
    CASE kind = "timeout" -> "first frame must be resume (timeout)"
      [] kind = "invalid_json" -> "invalid JSON for first frame"
      [] kind = "not_resume" -> "first frame must be resume"

\* handler lines 625-647 on such a first frame: an error frame and ws.close(),
\* except that int() raises on the from_seq and the exception leaves the handler
BadFirstFrame(s, kind) ==
    /\ pc[s] = "await_resume"
    /\ open[s]
    /\ IF kind = "bad_from_seq"
       THEN UNCHANGED <<frames, send_failures, wire>>
       ELSE Send(s, [type |-> "error", reason |-> ErrorReason(kind)])
    /\ first' = [first EXCEPT ![s] = kind]
    /\ pc' = [pc EXCEPT ![s] = "closed"]
    /\ UNCHANGED <<runVars, prodVars, from_seq, min_seq, wm_seq, start,
                   resume_truncated, delta_end, rest, taskVars, open, requested,
                   heartbeats, skipped, mainVars, dbVars, readVars>>

\* mutant of ResumeNoRun: the connection is closed without an error frame
ResumeNoRun_Silent(s, N) ==
    /\ pc[s] = "await_resume"
    /\ open[s]
    /\ ~run_active
    /\ from_seq' = [from_seq EXCEPT ![s] = IntOr1(N)]
    /\ requested' = [requested EXCEPT ![s] = N]
    /\ first' = [first EXCEPT ![s] = "resume"]
    /\ pc' = [pc EXCEPT ![s] = "closed"]
    /\ UNCHANGED <<runVars, prodVars, min_seq, wm_seq, start, resume_truncated,
                   delta_end, rest, taskVars, open, heartbeats, skipped,
                   mainVars, dbVars, readVars, frames, send_failures, wire>>

\* handler lines 647-654: a resume frame while self.run is None
ResumeNoRun(s, N) ==
    /\ pc[s] = "await_resume"
    /\ open[s]
    /\ ~run_active
    /\ from_seq' = [from_seq EXCEPT ![s] = IntOr1(N)]
    /\ Send(s, [type |-> "error", reason |-> "no active run"])
    /\ requested' = [requested EXCEPT ![s] = N]
    /\ first' = [first EXCEPT ![s] = "resume"]
    /\ pc' = [pc EXCEPT ![s] = "closed"]
    /\ UNCHANGED <<runVars, prodVars, min_seq, wm_seq, start, resume_truncated,
                   delta_end, rest, taskVars, open, heartbeats, skipped,
                   mainVars, dbVars, readVars>>

\* ws.recv() raises on a closed connection; the handler does not catch it
RecvFail(s) ==
    /\ pc[s] = "await_resume"
    /\ ~open[s]
    /\ pc' = [pc EXCEPT ![s] = "closed"]
    /\ UNCHANGED <<runVars, prodVars, from_seq, min_seq, wm_seq, start,
                   resume_truncated, delta_end, rest, taskVars, wireVars>>
    /\ UNCHANGED <<mainVars, dbVars, readVars>>

\* mutant of BeginDelta: the delta range starts one seq too late
BeginDelta_SkipFirst(s) ==
    LET de == LastSeq
        delta == IF de > wm_seq[s] THEN GetRange(wm_seq[s] + 2, de) ELSE <<>>
    IN /\ delta_end' = [delta_end EXCEPT ![s] = de]
       /\ IF Len(delta) > 0
          THEN /\ Send(s, [type |-> "delta", samples |-> Head_n(delta, HistoryChunk)])
               /\ rest' = [rest EXCEPT ![s] = Tail_n(delta, HistoryChunk)]
               /\ pc' = [pc EXCEPT ![s] = "delta"]
          ELSE /\ Send(s, [type |-> "init_complete", resume_from |-> de,
                           resume_truncated |-> resume_truncated[s]])
               /\ rest' = [rest EXCEPT ![s] = <<>>]
               /\ pc' = [pc EXCEPT ![s] = "init_complete"]

\* handler lines 677-691: delta_end is read, then the first delta chunk or,
\* when there is no delta, init_complete is sent
BeginDelta(s) ==
    LET de == LastSeq
        delta == IF de > wm_seq[s] THEN GetRange(wm_seq[s] + 1, de) ELSE <<>>
    IN /\ delta_end' = [delta_end EXCEPT ![s] = de]
       /\ IF Len(delta) > 0
          THEN /\ Send(s, [type |-> "delta", samples |-> Head_n(delta, HistoryChunk)])
               /\ rest' = [rest EXCEPT ![s] = Tail_n(delta, HistoryChunk)]
               /\ pc' = [pc EXCEPT ![s] = "delta"]
          ELSE /\ Send(s, [type |-> "init_complete", resume_from |-> de,
                           resume_truncated |-> resume_truncated[s]])
               /\ rest' = [rest EXCEPT ![s] = <<>>]
               /\ pc' = [pc EXCEPT ![s] = "init_complete"]

\* handler, from the return of the init_begin send to the next send
AfterInitBegin(s) ==
    /\ pc[s] = "init_begin"
    /\ LET history == IF start[s] <= wm_seq[s]
                      THEN GetRange(start[s], wm_seq[s]) ELSE <<>>
       IN IF Len(history) > 0
          THEN /\ Send(s, [type |-> "history", samples |-> Head_n(history, HistoryChunk)])
               /\ rest' = [rest EXCEPT ![s] = Tail_n(history, HistoryChunk)]
               /\ pc' = [pc EXCEPT ![s] = "history"]
               /\ skipped' = [skipped EXCEPT ![s] = @ \cup Evicted(start[s], wm_seq[s])]
               /\ UNCHANGED delta_end
          ELSE /\ BeginDelta(s)
               /\ skipped' = [skipped EXCEPT ![s] = @ \cup Evicted(start[s], wm_seq[s])
                                                      \cup Evicted(wm_seq[s] + 1, LastSeq)]
    /\ UNCHANGED <<runVars, prodVars, from_seq, min_seq, wm_seq, start,
                   resume_truncated, taskVars, open, requested, heartbeats, first>>
    /\ UNCHANGED <<mainVars, dbVars, readVars>>

\* handler, from the return of a history send to the next send
AfterHistoryChunk(s) ==
    /\ pc[s] = "history"
    /\ IF Len(rest[s]) > 0
       THEN /\ Send(s, [type |-> "history", samples |-> Head_n(rest[s], HistoryChunk)])
            /\ rest' = [rest EXCEPT ![s] = Tail_n(rest[s], HistoryChunk)]
            /\ UNCHANGED <<pc, delta_end, skipped>>
       ELSE /\ BeginDelta(s)
            /\ skipped' = [skipped EXCEPT ![s] = @ \cup Evicted(wm_seq[s] + 1, LastSeq)]
    /\ UNCHANGED <<runVars, prodVars, from_seq, min_seq, wm_seq, start,
                   resume_truncated, taskVars, open, requested, heartbeats, first>>
    /\ UNCHANGED <<mainVars, dbVars, readVars>>

\* mutant of AfterDeltaChunk: init_complete reports wm_seq as resume_from
AfterDeltaChunk_ResumeWm(s) ==
    /\ pc[s] = "delta"
    /\ IF Len(rest[s]) > 0
       THEN /\ Send(s, [type |-> "delta", samples |-> Head_n(rest[s], HistoryChunk)])
            /\ rest' = [rest EXCEPT ![s] = Tail_n(rest[s], HistoryChunk)]
            /\ UNCHANGED pc
       ELSE /\ Send(s, [type |-> "init_complete", resume_from |-> wm_seq[s],
                        resume_truncated |-> resume_truncated[s]])
            /\ UNCHANGED rest
            /\ pc' = [pc EXCEPT ![s] = "init_complete"]
    /\ UNCHANGED <<runVars, prodVars, from_seq, min_seq, wm_seq, start,
                   resume_truncated, delta_end, taskVars, open, requested, heartbeats,
                   skipped, first>>
    /\ UNCHANGED <<mainVars, dbVars, readVars>>

\* handler, from the return of a delta send to the next send
AfterDeltaChunk(s) ==
    /\ pc[s] = "delta"
    /\ IF Len(rest[s]) > 0
       THEN /\ Send(s, [type |-> "delta", samples |-> Head_n(rest[s], HistoryChunk)])
            /\ rest' = [rest EXCEPT ![s] = Tail_n(rest[s], HistoryChunk)]
            /\ UNCHANGED pc
       ELSE /\ Send(s, [type |-> "init_complete", resume_from |-> delta_end[s],
                        resume_truncated |-> resume_truncated[s]])
            /\ UNCHANGED rest
            /\ pc' = [pc EXCEPT ![s] = "init_complete"]
    /\ UNCHANGED <<runVars, prodVars, from_seq, min_seq, wm_seq, start,
                   resume_truncated, delta_end, taskVars, open, requested, heartbeats,
                   skipped, first>>
    /\ UNCHANGED <<mainVars, dbVars, readVars>>

\* mutant of StartTasks: the live loop starts after wm_seq instead of delta_end
StartTasks_AfterWm(s) ==
    /\ pc[s] = "init_complete"
    /\ hb_pc' = [hb_pc EXCEPT ![s] = "sleep"]
    /\ live_pc' = [live_pc EXCEPT ![s] = "top"]
    /\ last_sent' = [last_sent EXCEPT ![s] = wm_seq[s]]
    /\ pc' = [pc EXCEPT ![s] = "wait_tasks"]
    /\ UNCHANGED <<runVars, prodVars, from_seq, min_seq, wm_seq, start,
                   resume_truncated, delta_end, rest, to_send, woken, series_state, gap_log, wireVars>>
    /\ UNCHANGED <<mainVars, dbVars, readVars>>

\* mutant of StartTasks: the heartbeat task is not created
StartTasks_NoHeartbeat(s) ==
    /\ pc[s] = "init_complete"
    /\ live_pc' = [live_pc EXCEPT ![s] = "top"]
    /\ last_sent' = [last_sent EXCEPT ![s] = delta_end[s]]
    /\ pc' = [pc EXCEPT ![s] = "wait_tasks"]
    /\ UNCHANGED <<runVars, prodVars, from_seq, min_seq, wm_seq, start, hb_pc,
                   resume_truncated, delta_end, rest, to_send, woken, series_state, gap_log, wireVars>>
    /\ UNCHANGED <<mainVars, dbVars, readVars>>

\* mutant of StartTasks: the live loop starts one seq after delta_end
StartTasks_OneLater(s) ==
    /\ pc[s] = "init_complete"
    /\ hb_pc' = [hb_pc EXCEPT ![s] = "sleep"]
    /\ live_pc' = [live_pc EXCEPT ![s] = "top"]
    /\ last_sent' = [last_sent EXCEPT ![s] = delta_end[s] + 1]
    /\ pc' = [pc EXCEPT ![s] = "wait_tasks"]
    /\ UNCHANGED <<runVars, prodVars, from_seq, min_seq, wm_seq, start,
                   resume_truncated, delta_end, rest, to_send, woken, series_state, gap_log, wireVars>>
    /\ UNCHANGED <<mainVars, dbVars, readVars>>

\* handler lines 693-698: both tasks are created, the handler waits for the first
StartTasks(s) ==
    /\ pc[s] = "init_complete"
    /\ hb_pc' = [hb_pc EXCEPT ![s] = "sleep"]
    /\ live_pc' = [live_pc EXCEPT ![s] = "top"]
    /\ last_sent' = [last_sent EXCEPT ![s] = delta_end[s]]
    /\ pc' = [pc EXCEPT ![s] = "wait_tasks"]
    /\ UNCHANGED <<runVars, prodVars, from_seq, min_seq, wm_seq, start,
                   resume_truncated, delta_end, rest, to_send, woken, series_state, gap_log, wireVars>>
    /\ UNCHANGED <<mainVars, dbVars, readVars>>

\* handler lines 699-704: the live task has returned; the heartbeat task is
\* cancelled and the connection closed
HandlerFinish(s) ==
    /\ pc[s] = "wait_tasks"
    /\ live_pc[s] = "returned"
    /\ hb_pc' = [hb_pc EXCEPT ![s] = "cancelled"]
    /\ pc' = [pc EXCEPT ![s] = "closed"]
    /\ UNCHANGED <<runVars, prodVars, from_seq, min_seq, wm_seq, start,
                   resume_truncated, delta_end, rest, live_pc, last_sent, to_send,
                   woken, series_state, gap_log, wireVars>>
    /\ UNCHANGED <<mainVars, dbVars, readVars>>

\* ---------------------------------------------------------------- heartbeat
\* mutant of Heartbeat: the heartbeat task runs from the resume on
Heartbeat_BeforeHandshake(s) ==
    /\ hb_pc[s] = "sleep" \/ pc[s] \in {"init_begin", "history", "delta"}
    /\ heartbeats[s] < MaxHeartbeats
    /\ Send(s, [type |-> "heartbeat"])
    /\ heartbeats' = [heartbeats EXCEPT ![s] = @ + 1]
    /\ UNCHANGED <<runVars, prodVars, handlerVars, taskVars, open, requested, skipped, first>>
    /\ UNCHANGED <<mainVars, dbVars, readVars>>

\* _heartbeat_loop: the sleep ends and a heartbeat frame is sent
Heartbeat(s) ==
    /\ hb_pc[s] = "sleep"
    /\ heartbeats[s] < MaxHeartbeats
    /\ Send(s, [type |-> "heartbeat"])
    /\ heartbeats' = [heartbeats EXCEPT ![s] = @ + 1]
    /\ UNCHANGED <<runVars, prodVars, handlerVars, taskVars, open, requested, skipped, first>>
    /\ UNCHANGED <<mainVars, dbVars, readVars>>

\* ---------------------------------------------------------------- live loop
\* mutant of Drained: run.done is not consulted
Drained_IgnoreDone(s) ==
    last_sent[s] >= (IF final_seq = None \/ final_seq = 0 THEN last_sent[s] ELSE final_seq)

\* mutant of Drained: > instead of >=
Drained_Strict(s) ==
    /\ done
    /\ last_sent[s] > (IF final_seq = None \/ final_seq = 0 THEN last_sent[s] ELSE final_seq)

\* run.done and last_sent >= (run.final_seq or last_sent)
Drained(s) ==
    /\ done
    /\ last_sent[s] >= (IF final_seq = None \/ final_seq = 0 THEN last_sent[s] ELSE final_seq)

\* a series the session has not seen: series_state.get(sid) is None
NoSeriesState == [prev |-> None, gaps |-> 0, missed |-> 0, warned_initial |-> FALSE]

\* _live_loop lines 940-976 for one sample x of a batch
AccountSample(state, x) ==
    IF x.series_id = "" THEN state
    ELSE LET st == state[x.series_id]
             sseq == x.series_seq
         IN [state EXCEPT ![x.series_id] =
               IF st.prev = None
               THEN IF sseq > 1 /\ ~st.warned_initial
                    THEN [prev |-> sseq, gaps |-> st.gaps + 1,
                          missed |-> st.missed + (sseq - 1), warned_initial |-> TRUE]
                    ELSE [st EXCEPT !.prev = sseq]
               ELSE IF sseq > st.prev + 1
                    THEN [st EXCEPT !.prev = sseq, !.gaps = @ + 1,
                                    !.missed = @ + (sseq - st.prev - 1)]
                    ELSE [st EXCEPT !.prev = sseq]]

RECURSIVE SeriesAccount(_, _)
\* _live_loop lines 940-976: the per-series accounting of one batch
SeriesAccount(state, batch) ==
    IF Len(batch) = 0 THEN state
    ELSE SeriesAccount(AccountSample(state, Head(batch)), Tail(batch))

\* mutant of GapLogged: a line is logged for every fetch
GapLogged_Always(log, expected, fetched) ==
    IF Len(fetched) > 0
    THEN Append(log, [expected |-> expected, got |-> fetched[1].seq,
                      skipped |-> fetched[1].seq - expected])
    ELSE log

\* _live_loop lines 923-930: the global-sequence gap warning of one fetch, as
\* the record (expected, got, skipped) it prints
GapLogged(log, expected, fetched) ==
    IF Len(fetched) > 0 /\ fetched[1].seq > expected
    THEN Append(log, [expected |-> expected, got |-> fetched[1].seq,
                      skipped |-> fetched[1].seq - expected])
    ELSE log

\* _live_loop lines 910-930 and the first pass of lines 934-978: the head of the
\* while loop, up to the await it reaches
LiveTop(s) ==
    /\ live_pc[s] = "top"
    /\ IF Drained(s)
       THEN /\ Send(s, [type |-> "test_done", final_seq |-> final_seq])
            /\ live_pc' = [live_pc EXCEPT ![s] = "returning"]
            /\ UNCHANGED <<new_event, woken, to_send, skipped, series_state, gap_log>>
       ELSE IF LastSeq <= last_sent[s]
       THEN \* wait_for_new_after: new_event.clear(), then wait on it
            /\ new_event' = FALSE
            /\ woken' = [woken EXCEPT ![s] = FALSE]
            /\ live_pc' = [live_pc EXCEPT ![s] = "wait"]
            /\ UNCHANGED <<frames, send_failures, wire, to_send, skipped, series_state,
                           gap_log>>
       ELSE LET fetched == GetRange(last_sent[s] + 1, LastSeq)
            IN /\ to_send' = [to_send EXCEPT ![s] = fetched]
               /\ gap_log' = [gap_log EXCEPT ![s] =
                                 GapLogged(@, last_sent[s] + 1, fetched)]
               /\ skipped' = [skipped EXCEPT ![s] =
                                 @ \cup Evicted(last_sent[s] + 1, LastSeq)]
               /\ IF Len(fetched) > 0
                  THEN /\ series_state' = [series_state EXCEPT ![s] =
                                  SeriesAccount(@, Head_n(fetched, LiveBatch))]
                       /\ Send(s, [type |-> "live", samples |-> Head_n(fetched, LiveBatch)])
                       /\ live_pc' = [live_pc EXCEPT ![s] = "send"]
                  ELSE UNCHANGED <<frames, send_failures, wire, live_pc, series_state>>
               /\ UNCHANGED <<new_event, woken>>
    /\ UNCHANGED <<ring, next_seq, series_next_seq, done, final_seq, ring_capacity,
                   prodVars, handlerVars, last_sent, hb_pc, open, requested, heartbeats, first>>
    /\ UNCHANGED <<mainVars, dbVars, readVars>>

\* wait_for_new_after returns: woken by new_event.set() or by the 1 s timeout
WaitReturn(s) ==
    /\ live_pc[s] = "wait"
    /\ live_pc' = [live_pc EXCEPT ![s] = "top"]
    /\ woken' = [woken EXCEPT ![s] = FALSE]
    /\ UNCHANGED <<runVars, prodVars, handlerVars, last_sent, to_send, hb_pc, series_state, gap_log,
                   wireVars>>
    /\ UNCHANGED <<mainVars, dbVars, readVars>>

\* mutant of LiveSent: after the first batch the rest of the fetch is dropped
LiveSent_SkipRest(s) ==
    /\ live_pc[s] = "send"
    /\ last_sent' = [last_sent EXCEPT ![s] = to_send[s][Len(to_send[s])].seq]
    /\ to_send' = [to_send EXCEPT ![s] = <<>>]
    /\ live_pc' = [live_pc EXCEPT ![s] = "flush"]
    /\ UNCHANGED <<runVars, prodVars, handlerVars, hb_pc, woken, series_state, gap_log, wireVars>>
    /\ UNCHANGED <<mainVars, dbVars, readVars>>

\* mutant of LiveSent: last_sent is one variable shared by the sessions
LiveSent_Shared(s) ==
    /\ live_pc[s] = "send"
    /\ LET batch == Head_n(to_send[s], LiveBatch)
       IN /\ last_sent' = [t \in Sessions |-> batch[Len(batch)].seq]
          /\ to_send' = [to_send EXCEPT ![s] = Tail_n(to_send[s], LiveBatch)]
    /\ live_pc' = [live_pc EXCEPT ![s] = "flush"]
    /\ UNCHANGED <<runVars, prodVars, handlerVars, hb_pc, woken, series_state, gap_log, wireVars>>
    /\ UNCHANGED <<mainVars, dbVars, readVars>>

\* _live_loop lines 979-981: the live send returned; last_sent moves to the
\* batch's last seq and the task sleeps for flush_sleep
LiveSent(s) ==
    /\ live_pc[s] = "send"
    /\ LET batch == Head_n(to_send[s], LiveBatch)
       IN /\ last_sent' = [last_sent EXCEPT ![s] = batch[Len(batch)].seq]
          /\ to_send' = [to_send EXCEPT ![s] = Tail_n(to_send[s], LiveBatch)]
    /\ live_pc' = [live_pc EXCEPT ![s] = "flush"]
    /\ UNCHANGED <<runVars, prodVars, handlerVars, hb_pc, woken, series_state, gap_log, wireVars>>
    /\ UNCHANGED <<mainVars, dbVars, readVars>>

\* mutant of LiveFlushed: the accounting writes the series' missed count into
\* the samples it has looked at
LiveFlushed_MarkMissed(s) ==
    /\ live_pc[s] = "flush"
    /\ IF Len(to_send[s]) > 0
       THEN LET batch == Head_n(to_send[s], LiveBatch)
                state == SeriesAccount(series_state[s], batch)
            IN /\ series_state' = [series_state EXCEPT ![s] = state]
               /\ Send(s, [type |-> "live",
                           samples |-> [i \in 1..Len(batch) |->
                               IF batch[i].series_id = "" THEN batch[i]
                               ELSE [batch[i] EXCEPT !.series_seq =
                                        state[batch[i].series_id].missed]]])
               /\ live_pc' = [live_pc EXCEPT ![s] = "send"]
       ELSE /\ live_pc' = [live_pc EXCEPT ![s] = "top"]
            /\ UNCHANGED <<frames, send_failures, wire, series_state>>
    /\ UNCHANGED <<runVars, prodVars, handlerVars, last_sent, to_send, hb_pc, woken,
                   open, requested, heartbeats, skipped, first, gap_log>>
    /\ UNCHANGED <<mainVars, dbVars, readVars>>

\* _live_loop: the flush sleep ended; the next batch is sent, or the inner loop
\* is over and control is back at the head of the outer loop
LiveFlushed(s) ==
    /\ live_pc[s] = "flush"
    /\ IF Len(to_send[s]) > 0
       THEN /\ series_state' = [series_state EXCEPT ![s] =
                       SeriesAccount(@, Head_n(to_send[s], LiveBatch))]
            /\ Send(s, [type |-> "live", samples |-> Head_n(to_send[s], LiveBatch)])
            /\ live_pc' = [live_pc EXCEPT ![s] = "send"]
       ELSE /\ live_pc' = [live_pc EXCEPT ![s] = "top"]
            /\ UNCHANGED <<frames, send_failures, wire, series_state>>
    /\ UNCHANGED <<runVars, prodVars, handlerVars, last_sent, to_send, hb_pc, woken,
                   open, requested, heartbeats, skipped, first, gap_log>>
    /\ UNCHANGED <<mainVars, dbVars, readVars>>

\* _live_loop line 913: the test_done send returned and the task returns
LiveReturn(s) ==
    /\ live_pc[s] = "returning"
    /\ live_pc' = [live_pc EXCEPT ![s] = "returned"]
    /\ UNCHANGED <<runVars, prodVars, handlerVars, last_sent, to_send, hb_pc, woken,
                   series_state, gap_log, wireVars>>
    /\ UNCHANGED <<mainVars, dbVars, readVars>>

\* ---------------------------------------------------------------- system
Modes == {"paced", "unpaced", "db_live"}

\* the inputs of a producer: lists of series ids of length 0..MaxAppends
InputsOver(sids) == UNION {[1..n -> sids] : n \in 0..MaxAppends}

\* FeedRun.__init__ and WSServer.__init__: an empty run of a capacity in caps,
\* the producer not yet started, the clients in `active` connected and their
\* handlers at ws.recv()
StateWith(active, inputs, caps) ==
    /\ ring = <<>>
    /\ next_seq = 1
    /\ series_next_seq = [sid \in AllSeries \ {""} |-> 1]
    /\ done = FALSE
    /\ final_seq = None
    /\ new_event = FALSE
    /\ ring_capacity \in caps
    /\ mode \in Modes
    /\ samples \in inputs
    /\ idx = 0
    /\ pc = [s \in Sessions |-> IF s \in active THEN "await_resume" ELSE "off"]
    /\ from_seq = [s \in Sessions |-> 0]
    /\ min_seq = [s \in Sessions |-> 0]
    /\ wm_seq = [s \in Sessions |-> 0]
    /\ start = [s \in Sessions |-> 0]
    /\ resume_truncated = [s \in Sessions |-> FALSE]
    /\ delta_end = [s \in Sessions |-> 0]
    /\ rest = [s \in Sessions |-> <<>>]
    /\ live_pc = [s \in Sessions |-> "none"]
    /\ last_sent = [s \in Sessions |-> 0]
    /\ to_send = [s \in Sessions |-> <<>>]
    /\ hb_pc = [s \in Sessions |-> "none"]
    /\ woken = [w \in Waiters |-> FALSE]
    /\ open = [s \in Sessions |-> TRUE]
    /\ frames = [s \in Sessions |-> <<>>]
    /\ requested = [s \in Sessions |-> 0]
    /\ heartbeats = [s \in Sessions |-> 0]
    /\ skipped = [s \in Sessions |-> {}]
    /\ series_state = [s \in Sessions |-> [sid \in AllSeries \ {""} |-> NoSeriesState]]
    /\ gap_log = [s \in Sessions |-> <<>>]
    /\ first = [s \in Sessions |-> "none"]
    /\ send_failures = [s \in Sessions |-> 0]
    /\ wire = [s \in Sessions |-> <<>>]
    /\ run_active \in BOOLEAN
    /\ rd_lo = 1 /\ rd_hi = 0 /\ rd_out = <<>>
    /\ w_pc = "idle" /\ w_seq = 0 /\ w_ret = "none"
    /\ db_table = {} /\ db_cursor = 0 /\ db_log = <<>>

\* the valid arguments main was started with, for a run of capacity cap
ValidArgs(cap) ==
    [ring_capacity |-> cap, history_chunk |-> HistoryChunk, live_batch |-> LiveBatch]

\* main has validated its arguments, installed the run, created the producer
\* task and serves (lines 1740-1805), with the default --ws-format text
InitWith(active, inputs) ==
    /\ StateWith(active, inputs, 1..MaxCap)
    /\ ws_format = "text"
    /\ main_pc = "serving"
    /\ args = ValidArgs(ring_capacity)

\* main installs the run (lines 1745-1747) before it serves (line 1805)
Init == InitWith({1}, InputsOver({"a"})) /\ run_active

Producer ==
    \/ \E k \in 1..MaxAppends : PlaybackStep(k)
    \/ PlaybackDone
    \/ \E k \in 1..MaxAppends : DbPoll(k)

Handler(s) ==
    \/ \E N \in FromSeqs : Resume(s, N)
    \/ \E kind \in BadFirstKinds : BadFirstFrame(s, kind)
    \/ RecvFail(s)
    \/ AfterInitBegin(s)
    \/ AfterHistoryChunk(s)
    \/ AfterDeltaChunk(s)
    \/ StartTasks(s)
    \/ HandlerFinish(s)

LiveLoop(s) ==
    \/ LiveTop(s)
    \/ WaitReturn(s)
    \/ LiveSent(s)
    \/ LiveFlushed(s)
    \/ LiveReturn(s)

Next ==
    \/ Producer
    \/ \E s \in Sessions : Handler(s)
    \/ \E s \in Sessions : LiveLoop(s)
    \/ \E s \in Sessions : Heartbeat(s)
    \/ \E s \in Sessions : ClientClose(s)

Spec == Init /\ [][Next]_vars

\* the steps of the handler after the resume frame, on a transport that is up
HandlerSteps(s) ==
    \/ AfterInitBegin(s)
    \/ AfterHistoryChunk(s)
    \/ AfterDeltaChunk(s)
    \/ StartTasks(s)
    \/ HandlerFinish(s)

\* a finite run (playback) with clients that stay connected
FairInit == Init /\ mode # "db_live"

Playback ==
    \/ \E k \in 1..MaxAppends : PlaybackStep(k)
    \/ PlaybackDone

FairNext ==
    \/ Playback
    \/ \E s \in Sessions : \E N \in FromSeqs : Resume(s, N)
    \/ \E s \in Sessions : HandlerSteps(s)
    \/ \E s \in Sessions : LiveLoop(s)
    \/ \E s \in Sessions : Heartbeat(s)

\* the event loop runs every ready task; sleeps and waits with a timeout end
FairSpec ==
    /\ FairInit
    /\ [][FairNext]_vars
    /\ WF_vars(Playback)
    /\ \A s \in Sessions : WF_vars(HandlerSteps(s)) /\ WF_vars(LiveLoop(s))

\* a WSServer that is served before a run is installed: WSServer.__init__ leaves
\* self.run = None, there is no producer, and every client meets the handler
NoRunInit == InitWith(Sessions, {<<>>}) /\ ~run_active

NoRunNext ==
    \/ \E s \in Sessions : \E N \in FromSeqs : ResumeNoRun(s, N)
    \/ \E s \in Sessions : \E kind \in BadFirstKinds : BadFirstFrame(s, kind)
    \/ \E s \in Sessions : RecvFail(s)
    \/ \E s \in Sessions : ClientClose(s)

NoRunSpec == NoRunInit /\ [][NoRunNext]_vars

\* two clients of one unpaced playback; client 1 may close its transport
TwoInit == InitWith(Sessions, InputsOver({"a"})) /\ run_active /\ mode = "unpaced"

TwoNext ==
    \/ Playback
    \/ \E s \in Sessions : Resume(s, 1)
    \/ \E s \in Sessions : \E kind \in BadFirstKinds : BadFirstFrame(s, kind)
    \/ \E s \in Sessions : RecvFail(s)
    \/ \E s \in Sessions : HandlerSteps(s)
    \/ \E s \in Sessions : LiveLoop(s)
    \/ \E s \in Sessions : Heartbeat(s)
    \/ ClientClose(1)

TwoSpec == TwoInit /\ [][TwoNext]_vars

\* two clients that stay connected to one paced playback
StallInit == InitWith(Sessions, InputsOver({"a"})) /\ run_active /\ mode = "paced"

StallNext ==
    \/ Playback
    \/ \E s \in Sessions : Resume(s, 1)
    \/ \E s \in Sessions : HandlerSteps(s)
    \/ \E s \in Sessions : LiveLoop(s)

StallSpec == StallInit /\ [][StallNext]_vars

\* the run alone: every producer, inputs over several series, and a reader
\* that calls get_range with any arguments
RingInit == InitWith({}, InputsOver(AllSeries)) /\ run_active

RingNext ==
    \/ Producer
    \/ \E lo \in QueryRange : \E hi \in QueryRange : Query(lo, hi)

RingSpec == RingInit /\ [][RingNext]_vars

\* one client that stays connected to a paced playback, on an event loop that
\* runs every ready task
LiveFairInit == InitWith({1}, InputsOver({"a"})) /\ run_active /\ mode = "paced"

LiveFairSpec ==
    /\ LiveFairInit
    /\ [][StallNext]_vars
    /\ WF_vars(Playback)
    /\ \A s \in Sessions : WF_vars(HandlerSteps(s)) /\ WF_vars(LiveLoop(s))

\* a playback, paced or unpaced, of an input over several series into an empty
\* ring; the sleeps of the playback end
PlayInit == RingInit /\ mode # "db_live"

PlayFairSpec == PlayInit /\ [][Playback]_vars /\ WF_vars(Playback)

\* the seqs a caller passes to wait_for_new_after
WaitSeqs == 0..MaxAppends

\* the run, every producer, and a task that calls wait_for_new_after
WaitInit == InitWith({}, InputsOver({"a"})) /\ run_active

WaitNext ==
    \/ Producer
    \/ \E seq \in WaitSeqs : WaitCall(seq)
    \/ WaitWake
    \/ WaitTimeout

WaitSpec == WaitInit /\ [][WaitNext]_vars

\* idle clients: a db_live run whose table has no rows, so that the producer
\* polls for ever without an append and never sets done; the clients stay
\* connected and the event loop runs every ready task
IdleInit == InitWith(Sessions, {<<>>}) /\ run_active /\ mode = "db_live"

IdleNext ==
    \/ \E s \in Sessions : \E N \in FromSeqs : Resume(s, N)
    \/ \E s \in Sessions : AfterInitBegin(s)
    \/ \E s \in Sessions : StartTasks(s)
    \/ \E s \in Sessions : LiveTop(s)
    \/ \E s \in Sessions : WaitReturn(s)
    \/ \E s \in Sessions : Heartbeat(s)

IdleSpec ==
    /\ IdleInit
    /\ [][IdleNext]_vars
    /\ \A s \in Sessions : /\ WF_vars(AfterInitBegin(s)) /\ WF_vars(StartTasks(s))
                            /\ WF_vars(LiveTop(s)) /\ WF_vars(WaitReturn(s))
                            /\ WF_vars(Heartbeat(s))

\* the formats --ws-format accepts (choices, lines 1438-1443)
WsFormats == {"text", "binary"}

\* one client of a playback, under either wire format
WireInit ==
    /\ StateWith({1}, InputsOver({"a"}), 1..MaxCap)
    /\ run_active
    /\ mode # "db_live"
    /\ ws_format \in WsFormats
    /\ main_pc = "serving"
    /\ args = ValidArgs(ring_capacity)

WireNext ==
    \/ Playback
    \/ \E s \in Sessions : Resume(s, 1)
    \/ \E s \in Sessions : \E kind \in BadFirstKinds : BadFirstFrame(s, kind)
    \/ \E s \in Sessions : HandlerSteps(s)
    \/ \E s \in Sessions : LiveLoop(s)
    \/ \E s \in Sessions : Heartbeat(s)

WireSpec == WireInit /\ [][WireNext]_vars

\* one client that stays connected, under --ws-format binary, to a paced
\* playback of rows of which some cannot be encoded
EncodeInit ==
    /\ StateWith({1}, InputsOver({"a", "b"}), 1..MaxCap)
    /\ run_active
    /\ mode = "paced"
    /\ ws_format = "binary"
    /\ main_pc = "serving"
    /\ args = ValidArgs(ring_capacity)

EncodeSpec == EncodeInit /\ [][StallNext]_vars

\* the live tailer on one table that starts empty, and the writers of the
\* database; the tailer's poll sleep ends, the writers owe nothing
DbInit == InitWith({}, {<<>>}) /\ run_active /\ mode = "db_live"

DbNext ==
    \/ \E ts \in 1..MaxTs : InsertRow(ts)
    \/ DbFetch

DbSpec == DbInit /\ [][DbNext]_vars /\ WF_vars(DbFetch)

\* ---------------------------------------------------------------- startup
\* the values main may be given for --ring-capacity, --history-chunk, --live-batch
ArgSets ==
    [ring_capacity : (0 - 1)..MaxCap,
     history_chunk : {0 - 1, 0, HistoryChunk},
     live_batch : {0 - 1, 0, LiveBatch}]

\* mutant of Validate: live_batch is not checked
Validate_NoLiveBatch ==
    /\ main_pc = "start"
    /\ main_pc' = IF args.ring_capacity <= 0 \/ args.history_chunk <= 0
                  THEN "exit" ELSE "validated"
    /\ UNCHANGED <<runVars, prodVars, handlerVars, taskVars, wireVars, readVars,
                   run_active, ws_format, args, dbVars>>

\* validate_and_log_config lines 1633-1640, called at main line 1740: SystemExit
\* when one of the three values is not positive
Validate ==
    /\ main_pc = "start"
    /\ main_pc' = IF \/ args.ring_capacity <= 0
                     \/ args.history_chunk <= 0
                     \/ args.live_batch <= 0
                  THEN "exit" ELSE "validated"
    /\ UNCHANGED <<runVars, prodVars, handlerVars, taskVars, wireVars, readVars,
                   run_active, ws_format, args, dbVars>>

\* main lines 1742-1747: the WSServer, the FeedRun of args.ring_capacity, and
\* server.run = run
CreateRun ==
    /\ main_pc = "validated"
    /\ ring_capacity' = args.ring_capacity
    /\ run_active' = TRUE
    /\ main_pc' = "run_set"
    /\ UNCHANGED <<ring, next_seq, series_next_seq, done, final_seq, new_event>>
    /\ UNCHANGED <<prodVars, handlerVars, taskVars, wireVars, readVars, ws_format, args,
                   dbVars>>

\* main lines 1749-1800: asyncio.create_task(producer)
StartProducer ==
    /\ main_pc = "run_set"
    /\ main_pc' = "producing"
    /\ UNCHANGED <<runVars, prodVars, handlerVars, taskVars, wireVars, readVars,
                   run_active, ws_format, args, dbVars>>

\* main line 1805: websockets.serve listens
Serve ==
    /\ main_pc = "producing"
    /\ main_pc' = "serving"
    /\ UNCHANGED <<runVars, prodVars, handlerVars, taskVars, wireVars, readVars,
                   run_active, ws_format, args, dbVars>>

\* a client connects and ws_handler calls server.handler, which awaits ws.recv()
Accept(s) ==
    /\ main_pc = "serving"
    /\ pc[s] = "off"
    /\ pc' = [pc EXCEPT ![s] = "await_resume"]
    /\ UNCHANGED <<runVars, prodVars, from_seq, min_seq, wm_seq, start,
                   resume_truncated, delta_end, rest, taskVars, wireVars>>
    /\ UNCHANGED <<mainVars, dbVars, readVars>>

\* main is called with any arguments; no run exists and no client is connected
StartInit ==
    /\ StateWith({}, InputsOver({"a"}), {0})
    /\ ~run_active
    /\ ws_format = "text"
    /\ main_pc = "start"
    /\ args \in ArgSets

StartNext ==
    \/ Validate
    \/ CreateRun
    \/ StartProducer
    \/ Serve
    \/ \E s \in Sessions : Accept(s)
    \/ Producer

StartSpec == StartInit /\ [][StartNext]_vars

\* every producer and every client behaviour of Spec, on an event loop that runs
\* every ready task
CloseFairSpec ==
    /\ Init
    /\ [][Next]_vars
    /\ WF_vars(Producer)
    /\ \A s \in Sessions : WF_vars(Handler(s)) /\ WF_vars(LiveLoop(s)) /\ WF_vars(Heartbeat(s))

\* ---------------------------------------------------------------- observations
DataTypes == {"history", "delta", "live"}

RECURSIVE DataSeqs(_, _)
\* the seqs of the samples of the frames of fs whose type is in types, in order
DataSeqs(fs, types) ==
    IF Len(fs) = 0 THEN <<>>
    ELSE (IF Head(fs).type \in types THEN SeqsOf(Head(fs).samples) ELSE <<>>)
         \o DataSeqs(Tail(fs), types)

Emitted(s) == DataSeqs(frames[s], DataTypes)
Handshake(s) == DataSeqs(frames[s], {"history", "delta"})
Range(q) == {q[i] : i \in 1..Len(q)}
FramesOf(s, type) == SelectSeq(frames[s], LAMBDA f : f.type = type)
HasFrame(s, type) == \E i \in 1..Len(frames[s]) : frames[s][i].type = type
StrictlyIncreasing(q) == \A i \in 1..(Len(q) - 1) : q[i] < q[i + 1]
Resumed(s) == pc[s] \in {"init_begin", "history", "delta", "init_complete", "wait_tasks"}

\* ---------------------------------------------------------------- claims

\* C1: within a session the seqs of the samples of history, delta and live
\* frames, in emission order, are strictly increasing (no seq is sent twice).
C1_SeqStrictlyIncreasing == \A s \in Sessions : StrictlyIncreasing(Emitted(s))

C1_Witness ==
    /\ HasFrame(1, "history") /\ HasFrame(1, "delta") /\ HasFrame(1, "live")
    /\ Len(Emitted(1)) >= 3

\* C2 as stated: the emitted seqs cover [start, ...) with no duplicates and no
\* gaps, and [start, final_seq] once test_done has been emitted.
C2_CoversWithoutGaps ==
    \A s \in Sessions :
        LET E == Emitted(s) IN
        /\ StrictlyIncreasing(E)
        /\ Len(E) > 0 => \A q \in start[s]..E[Len(E)] : q \in Range(E)
        /\ HasFrame(s, "test_done") =>
              /\ \A q \in start[s]..final_seq : q \in Range(E)
              /\ \A q \in Range(E) : q <= final_seq

\* C2 amended: no duplicates, and the only seqs of [start, ...) that are missing
\* are those the ring had already evicted when the session fetched their range.
C2_CoversExceptEvicted ==
    \A s \in Sessions :
        LET E == Emitted(s) IN
        /\ StrictlyIncreasing(E)
        /\ skipped[s] \cap Range(E) = {}
        /\ \A q \in skipped[s] : q < MinSeq
        /\ Len(E) > 0 => \A q \in start[s]..E[Len(E)] : q \in Range(E) \cup skipped[s]
        /\ HasFrame(s, "test_done") =>
              /\ \A q \in start[s]..final_seq : q \in Range(E) \cup skipped[s]
              /\ \A q \in Range(E) : q <= final_seq

C2_Witness ==
    /\ HasFrame(1, "test_done")
    /\ skipped[1] # {}
    /\ HasFrame(1, "history") /\ HasFrame(1, "live")

\* C3: finite run without eviction (n <= C samples, then done): a client that
\* resumed with from_seq = 1 (its transport staying up) is eventually sent every seq
\* 1..n exactly once in increasing order, then one test_done carrying
\* final_seq = n, and the session is closed.
C3_Resumed ==
    /\ mode # "db_live"
    /\ Len(samples) <= ring_capacity
    /\ Resumed(1)
    /\ from_seq[1] = 1

C3_Delivered ==
    /\ pc[1] = "closed"
    /\ Emitted(1) = [i \in 1..Len(samples) |-> i]
    /\ FramesOf(1, "test_done") = <<[type |-> "test_done", final_seq |-> Len(samples)]>>
    /\ \A i, j \in 1..Len(frames[1]) :
          frames[1][i].type \in DataTypes /\ frames[1][j].type = "test_done" => i < j

C3_FiniteRunDelivered == C3_Resumed ~> C3_Delivered

C3_Witness == C3_Delivered /\ Len(samples) = ring_capacity /\ Len(samples) >= 2

\* C4: the frames of a session that received a valid resume come in the order
\* init_begin, history*, delta*, init_complete, then only live, heartbeat and
\* test_done; a session whose
\* transport is up has sent exactly one init_begin, and exactly one
\* init_complete once the handshake is over.
Rank(type) ==
    CASE type = "init_begin" -> 1
      [] type = "history" -> 2
      [] type = "delta" -> 3
      [] type = "init_complete" -> 4
      [] type \in {"live", "heartbeat", "test_done"} -> 5
      [] OTHER -> 0

C4_FrameOrder ==
    \A s \in Sessions :
        LET fs == frames[s] IN
        first[s] = "resume" =>
        /\ \A i \in 1..Len(fs) : Rank(fs[i].type) >= 1
        /\ \A i \in 1..(Len(fs) - 1) : Rank(fs[i].type) <= Rank(fs[i + 1].type)
        /\ Len(FramesOf(s, "init_begin")) <= 1
        /\ Len(FramesOf(s, "init_complete")) <= 1
        /\ Len(fs) > 0 => fs[1].type = "init_begin"
        /\ (\E i \in 1..Len(fs) : Rank(fs[i].type) = 5) => HasFrame(s, "init_complete")
        /\ open[s] /\ pc[s] \notin {"off", "await_resume"} => HasFrame(s, "init_begin")
        /\ open[s] /\ pc[s] \in {"init_complete", "wait_tasks"} => HasFrame(s, "init_complete")

C4_Witness ==
    /\ HasFrame(1, "history") /\ HasFrame(1, "delta") /\ HasFrame(1, "live")
    /\ HasFrame(1, "heartbeat") /\ HasFrame(1, "test_done")

\* C5: the first sample of history + delta has seq = min_seq (the one reported
\* in init_begin) when from_seq <= min_seq, and seq = from_seq when
\* min_seq < from_seq <= wm_seq + 1.
C5_FirstSample ==
    \A s \in Sessions :
        LET H == Handshake(s) IN
        Len(H) > 0 =>
            /\ requested[s] <= min_seq[s] => H[1] = min_seq[s]
            /\ min_seq[s] < requested[s] /\ requested[s] <= wm_seq[s] + 1
                  => H[1] = requested[s]

\* C6: init_begin carries wm_seq and min_seq of one instant:
\* min_seq = wm_seq + 1 - min(wm_seq, C), so min_seq <= wm_seq + 1 and
\* wm_seq - min_seq + 1 <= ring_capacity; on an empty ring wm_seq = 0, min_seq = 1.
C6_SnapshotConsistent ==
    \A s \in Sessions : \A i \in 1..Len(frames[s]) :
        LET f == frames[s][i] IN
        f.type = "init_begin" =>
            /\ f.ring_capacity = ring_capacity
            /\ f.min_seq = f.wm_seq + 1 - Min(f.wm_seq, f.ring_capacity)
            /\ f.min_seq <= f.wm_seq + 1
            /\ f.wm_seq - f.min_seq + 1 <= f.ring_capacity
            /\ f.wm_seq = 0 => f.min_seq = 1
            /\ f.wm_seq = wm_seq[s] /\ f.min_seq = min_seq[s]

C6_Witness ==
    /\ HasFrame(1, "init_begin")
    /\ frames[1][1].wm_seq > ring_capacity
    /\ frames[1][1].min_seq > 1

\* C7: init_complete.resume_truncated = (N < min_seq) for the from_seq = N the
\* client sent and the min_seq of the session's init_begin.
C7_ResumeTruncated ==
    \A s \in Sessions : \A i \in 1..Len(frames[s]) :
        LET f == frames[s][i] IN
        f.type = "init_complete" =>
            f.resume_truncated = (requested[s] < frames[s][1].min_seq)

\* C8: test_done is emitted at most once per session, only when the run is
\* done and last_sent >= final_seq, it carries final_seq, and it is never
\* emitted when the producer is the live tailer.
C8_TestDoneOnlyWhenDrained ==
    \A s \in Sessions :
        /\ Len(FramesOf(s, "test_done")) <= 1
        /\ \A i \in 1..Len(frames[s]) :
              frames[s][i].type = "test_done" =>
                  /\ done
                  /\ final_seq # None
                  /\ last_sent[s] >= final_seq
                  /\ frames[s][i].final_seq = final_seq
                  /\ mode # "db_live"

C8_Witness == HasFrame(1, "test_done") /\ final_seq >= 2 /\ HasFrame(1, "live")

\* C9: once the run is done, every session that has resumed (its transport
\* staying up) eventually emits test_done and is closed.
C9_Completion ==
    \A s \in Sessions :
        (done /\ Resumed(s)) ~> (pc[s] = "closed" /\ HasFrame(s, "test_done"))

C9_Witness ==
    /\ pc[1] = "closed" /\ HasFrame(1, "test_done")
    /\ skipped[1] # {}

\* C10: test_done is the last frame of a session.
C10_TestDoneLast ==
    \A s \in Sessions : \A i \in 1..Len(frames[s]) :
        frames[s][i].type = "test_done" => i = Len(frames[s])

\* C11: when the first client frame is not a valid resume (none within 15 s, not
\* parseable, type other than "resume", a from_seq that is no integer) the
\* session sends exactly one frame, an error frame, and is closed.
C11_InvalidFirstFrame ==
    \A s \in Sessions :
        first[s] \in BadFirstKinds =>
            /\ pc[s] = "closed"
            /\ Len(frames[s]) = 1
            /\ frames[s][1].type = "error"

\* C12: a valid resume that arrives while no run is active is answered by exactly
\* one frame, error with reason "no active run", and the session is closed.
C12_NoActiveRun ==
    \A s \in Sessions :
        (~run_active /\ first[s] = "resume") =>
            /\ pc[s] = "closed"
            /\ frames[s] = <<[type |-> "error", reason |-> "no active run"]>>

C12_Witness ==
    /\ ~run_active
    /\ first[1] = "resume" /\ requested[1] = 1 /\ Len(frames[1]) = 1
    /\ first[2] = "resume" /\ requested[2] = MaxFrom /\ Len(frames[2]) = 1

\* C13: once the transport of a session whose tasks run is closed, the live task
\* returns, the heartbeat task is cancelled and the handler returns, even when
\* the run is never marked done.
C13_TasksTerminate ==
    \A s \in Sessions :
        (~open[s] /\ pc[s] = "wait_tasks")
            ~> (pc[s] = "closed" /\ live_pc[s] = "returned" /\ hb_pc[s] = "cancelled")

\* C14: after the first send that fails on a session, the session attempts no
\* further send.
C14_NoSendAfterFailure == \A s \in Sessions : send_failures[s] <= 1

\* a step of session s: the handler, the live task, the heartbeat task, or the
\* client closing the transport
SessionStep(s) == Handler(s) \/ LiveLoop(s) \/ Heartbeat(s) \/ ClientClose(s)

\* C15: no step of a session changes the ring, next_seq, the per-series
\* counters, done or final_seq, nor the last_sent or the per-series gap state
\* of another session.
C15_SessionsLeaveRunAlone ==
    [][\A s \in Sessions :
          SessionStep(s) =>
              /\ UNCHANGED <<ring, next_seq, series_next_seq, done, final_seq>>
              /\ \A t \in Sessions \ {s} :
                    /\ last_sent'[t] = last_sent[t]
                    /\ series_state'[t] = series_state[t]]_vars

C15_Witness ==
    /\ ~open[1] /\ send_failures[1] >= 1
    /\ last_sent[1] > 0 /\ last_sent[2] > 0 /\ last_sent[1] # last_sent[2]
    /\ series_state[1]["a"].prev # None /\ series_state[2]["a"].prev # None
    /\ series_state[1] # series_state[2]
    /\ HasFrame(2, "heartbeat")

\* C16: an append is possible in every state in which the producer has a sample
\* left, whatever the sessions are doing, and a session whose live task has not
\* returned can take its next step whatever the other sessions are doing.
C16_AppendNeverBlocked ==
    /\ (~done /\ idx < Len(samples)) => ENABLED (\E k \in 1..MaxAppends : PlaybackStep(k))
    /\ \A s \in Sessions :
          live_pc[s] \in {"top", "wait", "send", "flush", "returning"} => ENABLED LiveLoop(s)

C16_Witness ==
    /\ live_pc[1] = "send" /\ last_sent[1] = 0
    /\ to_send[1][Len(to_send[1])].seq < LastSeq
    /\ last_sent[2] = LastSeq
    /\ idx < Len(samples)

\* C17: the k-th sample appended to the run has seq = k: next_seq is one more
\* than the number of appends and the ring holds the latest samples of the
\* input, each under its position in the input.
C17_GlobalSeq ==
    /\ next_seq = idx + 1
    /\ \A i \in 1..Len(ring) :
          /\ ring[i].seq = idx - Len(ring) + i
          /\ ring[i].series_id = samples[ring[i].seq]

C17_Witness ==
    /\ idx = MaxAppends /\ Len(ring) < idx
    /\ \E i, j \in 1..Len(ring) : ring[i].series_id # ring[j].series_id

\* C18: every sample in the ring has a series_seq, which is its rank among the
\* appended samples of its series_id, the empty series_id included.
C18_SeriesSeq ==
    \A i \in 1..Len(ring) :
        ring[i].series_seq =
            Cardinality({k \in 1..ring[i].seq : samples[k] = ring[i].series_id})

\* C19: the ring holds exactly the seqs min_seq..last_seq in increasing order,
\* |ring| = min(appends, C), min_seq = next_seq - |ring|, last_seq = next_seq - 1.
C19_RingWindow ==
    /\ Len(ring) = Min(idx, ring_capacity)
    /\ MinSeq = next_seq - Len(ring)
    /\ LastSeq = next_seq - 1
    /\ SeqsOf(ring) = [i \in 1..Len(ring) |-> MinSeq + i - 1]
    /\ idx >= ring_capacity => Len(ring) = ring_capacity /\ MinSeq = next_seq - ring_capacity

C19_Witness == idx = MaxAppends /\ Len(ring) = ring_capacity /\ MinSeq > 1 /\ Len(ring) >= 2

\* C20: get_range(lo, hi) returns the samples of the ring whose seqs are
\* max(lo, min_seq)..min(hi, last_seq), in increasing order, nothing when that
\* interval is empty, and the call leaves the ring as it was.  (readVars change
\* only in a call of get_range with the arguments rd_lo', rd_hi'.)
C20_GetRange ==
    [][readVars' # readVars =>
              LET a == Max(rd_lo', MinSeq)
                  b == Min(rd_hi', LastSeq)
              IN /\ SeqsOf(rd_out') = [i \in 1..Max(0, b - a + 1) |-> a + i - 1]
                 /\ \A i \in 1..Len(rd_out') : \E j \in 1..Len(ring) : ring[j] = rd_out'[i]
                 /\ UNCHANGED <<ring, next_seq, series_next_seq>>]_vars

C20_Witness ==
    /\ Len(rd_out) >= 2
    /\ rd_lo < rd_out[1].seq /\ rd_hi > rd_out[Len(rd_out)].seq
    /\ rd_out[1].seq > 1
    /\ rd_out[1].series_id # rd_out[2].series_id

\* C21: one append wakes every session that is blocked in wait_for_new_after:
\* no session waits with a seq below last_seq without having been woken.
C21_AppendWakesAll ==
    \A s \in Sessions :
        (live_pc[s] = "wait" /\ LastSeq > last_sent[s]) => woken[s]

C21_Witness ==
    /\ \A s \in Sessions : live_pc[s] = "wait" /\ woken[s] /\ LastSeq > last_sent[s]
    /\ last_sent[1] # last_sent[2]

\* C22: wait_for_new_after(seq) waits only when last_seq <= seq, returns True at
\* once otherwise, and after a wait returns True only when last_seq > seq and
\* False otherwise (timeout without an append, or the done signal).
C22_WaitResult ==
    [][/\ (w_pc = "idle" /\ w_pc' = "waiting") => LastSeq <= w_seq'
       /\ (w_pc = "idle" /\ w_pc' = "idle" /\ <<w_seq, w_ret>>' # <<w_seq, w_ret>>)
             => (w_ret' = "true" /\ LastSeq > w_seq')
       /\ (w_pc = "idle" /\ <<w_pc, w_seq, w_ret>>' # <<w_pc, w_seq, w_ret>>
              /\ LastSeq > w_seq') => (w_ret' = "true" /\ w_pc' = "idle")
       /\ (w_pc = "waiting" /\ w_pc' = "idle")
             => /\ w_ret' \in {"true", "false"}
                /\ w_ret' = "true" => LastSeq > w_seq
                /\ LastSeq <= w_seq => w_ret' = "false"]_vars

C22_Witness ==
    /\ w_pc = "idle" /\ w_ret = "false"
    /\ done /\ w_seq = LastSeq /\ w_seq >= 2

\* C23: every data frame on the wire has at least one sample, a history or
\* delta frame at most history_chunk samples, a live frame at most live_batch.
C23_FrameSizes ==
    \A s \in Sessions : \A i \in 1..Len(frames[s]) :
        LET f == frames[s][i] IN
        f.type \in DataTypes =>
            /\ Len(f.samples) >= 1
            /\ f.type \in {"history", "delta"} => Len(f.samples) <= HistoryChunk
            /\ f.type = "live" => Len(f.samples) <= LiveBatch

C23_Witness ==
    /\ Len(FramesOf(1, "history")) >= 2
    /\ HasFrame(1, "live")

\* C24: playback sets done and final_seq together, once, after its last append:
\* done implies final_seq = last_seq and a drained input, final_seq is unset
\* before, and from a done state no step changes done, final_seq or the ring;
\* the live tailer never marks the run done.
C24_DoneOnce ==
    [][/\ done' => (final_seq' = next_seq' - 1 /\ idx' = Len(samples'))
       /\ ~done' => final_seq' = None
       /\ done => (done' /\ final_seq' = final_seq /\ next_seq' = next_seq /\ ring' = ring)
       /\ mode' = "db_live" => ~done']_vars

C24_Witness ==
    /\ done /\ final_seq = MaxAppends /\ Len(ring) < final_seq
    /\ HasFrame(1, "test_done")

\* C30: no sample with a seq below the from_seq the client sent is sent to it
\* in a history, delta or live frame.
C30_NothingBelowFromSeq ==
    \A s \in Sessions :
        LET E == Emitted(s) IN
        \A i \in 1..Len(E) : E[i] >= requested[s]

\* C25: for a session in the live phase whose sends complete, every sample
\* appended with seq > last_sent is eventually sent to it in a live frame,
\* unless the ring had evicted it when the session fetched its range: the
\* session reaches again and again a state in which every seq appended after
\* the start of its live phase has been sent live or was skipped as evicted.
LiveCaughtUp(s) ==
    \A q \in (delta_end[s] + 1)..LastSeq :
        q \in Range(DataSeqs(frames[s], {"live"})) \/ q \in skipped[s]

C25_EventualDelivery ==
    \A s \in Sessions :
        (live_pc[s] \in {"top", "wait", "send", "flush"}) ~> LiveCaughtUp(s)

C25_Witness ==
    /\ Len(DataSeqs(frames[1], {"live"})) >= 2
    /\ skipped[1] # {}
    /\ pc[1] = "closed"

SamplesSent(s, types) ==
    UNION {Range(frames[s][i].samples) :
               i \in {j \in 1..Len(frames[s]) : frames[s][j].type \in types}}

\* the samples that exist: in the ring, fetched by a task, or sent
AllSamples ==
    Range(ring) \cup UNION {Range(rest[s]) \cup Range(to_send[s])
                              \cup SamplesSent(s, DataTypes) : s \in Sessions}

\* C27: a sample is never modified after it was appended (a seq that stays in
\* the ring keeps its content), and any two emissions of a seq, to any sessions
\* and in history, delta or live frames, carry identical content.
C27_SamplesImmutable ==
    [][/\ \A i \in 1..Len(ring) : \A j \in 1..Len(ring') :
              ring[i].seq = ring'[j].seq => ring[i] = ring'[j]
       /\ (<<ring, rest, to_send, frames>>' # <<ring, rest, to_send, frames>>) =>
              \A x \in AllSamples' : \A y \in AllSamples' : x.seq = y.seq => x = y]_vars

C27_Witness ==
    /\ \E x \in SamplesSent(1, {"live"}) : x \in SamplesSent(2, {"history"})
    /\ \E x \in SamplesSent(1, {"live"}) : x.seq < MinSeq
    /\ Len(ring) = 2

\* C28: the wire format of a frame is fixed by the configuration: with
\* ws_format = binary the history, delta and live frames are binary messages
\* and the control frames (init_begin, init_complete, heartbeat, test_done,
\* error) are text; with ws_format = text every frame is text.
C28_WireFormat ==
    \A s \in Sessions :
        /\ Len(wire[s]) = Len(frames[s])
        /\ \A i \in 1..Len(frames[s]) :
              /\ frames[s][i].type \in DataTypes \cup {"init_begin", "init_complete",
                                                       "heartbeat", "test_done", "error"}
              /\ ws_format = "text" => wire[s][i] = "text"
              /\ (ws_format = "binary" /\ frames[s][i].type \in DataTypes)
                     => wire[s][i] = "binary"
              /\ (ws_format = "binary" /\ frames[s][i].type \notin DataTypes)
                     => wire[s][i] = "text"

C28_Witness ==
    /\ ws_format = "binary"
    /\ HasFrame(1, "history") /\ HasFrame(1, "live")
    /\ HasFrame(1, "heartbeat") /\ HasFrame(1, "test_done")
    /\ wire[1][1] = "text" /\ wire[1][2] = "binary"

\* C29: a start with ring_capacity <= 0, history_chunk <= 0 or live_batch <= 0
\* is fatal: main exits in validation, and no run is created, no producer
\* started and no client accepted.
C29_InvalidConfigFatal ==
    (args.ring_capacity <= 0 \/ args.history_chunk <= 0 \/ args.live_batch <= 0) =>
        /\ main_pc \in {"start", "exit"}
        /\ ~run_active
        /\ idx = 0 /\ ring = <<>> /\ next_seq = 1 /\ ~done
        /\ \A s \in Sessions : pc[s] = "off"

C29_Witness ==
    /\ main_pc = "exit"
    /\ args.ring_capacity > 0 /\ args.history_chunk > 0 /\ args.live_batch <= 0

\* C31: init_complete.resume_from is the last_seq read after the history was
\* sent (delta_end); it is >= the wm_seq of init_begin; it is the seq of the
\* last history or delta sample when there is one, and wm_seq otherwise; every
\* history sample has seq <= wm_seq, every delta sample wm_seq < seq <=
\* resume_from, and every live sample seq > resume_from.
C31_ResumeFrom ==
    \A s \in Sessions :
        HasFrame(s, "init_complete") =>
            LET rf == FramesOf(s, "init_complete")[1].resume_from
                wm == FramesOf(s, "init_begin")[1].wm_seq
                hs == Handshake(s)
            IN /\ rf = delta_end[s]
               /\ rf >= wm
               /\ rf <= LastSeq
               /\ rf = IF Len(hs) > 0 THEN hs[Len(hs)] ELSE wm
               /\ \A q \in Range(DataSeqs(frames[s], {"history"})) : q <= wm
               /\ \A q \in Range(DataSeqs(frames[s], {"delta"})) : wm < q /\ q <= rf
               /\ \A q \in Range(DataSeqs(frames[s], {"live"})) : q > rf

C31_Witness ==
    /\ HasFrame(1, "history") /\ HasFrame(1, "delta") /\ HasFrame(1, "live")
    /\ FramesOf(1, "init_complete")[1].resume_from > FramesOf(1, "init_begin")[1].wm_seq

\* the seqs of the live samples of session s, in the order sent
LiveSeqs(s) == DataSeqs(frames[s], {"live"})

\* C32 as stated: the first sample of the first live frame of a session has
\* seq = resume_from + 1, for every interleaving.
C32_FirstLive ==
    \A s \in Sessions :
        Len(LiveSeqs(s)) > 0 => LiveSeqs(s)[1] = delta_end[s] + 1

\* C32 amended: the first sample of the first live frame has seq =
\* resume_from + 1, unless the ring had evicted that seq when the live loop
\* fetched; the first live sample is then the oldest retained one and every
\* seq between resume_from and it was evicted.
C32_FirstLiveOrEvicted ==
    \A s \in Sessions :
        Len(LiveSeqs(s)) > 0 =>
            /\ LiveSeqs(s)[1] > delta_end[s]
            /\ \A q \in (delta_end[s] + 1)..(LiveSeqs(s)[1] - 1) : q \in skipped[s]

C32_Witness ==
    /\ Len(LiveSeqs(1)) > 0
    /\ LiveSeqs(1)[1] > delta_end[1] + 1
    /\ HasFrame(1, "init_complete")

\* the gaps of the live stream of session s: the places where a live sample
\* does not follow the seq sent before it (delta_end before the first)
LiveGaps(s) ==
    LET L == <<delta_end[s]>> \o LiveSeqs(s)
    IN {[expected |-> L[i] + 1, got |-> L[i + 1], skipped |-> L[i + 1] - L[i] - 1] :
            i \in {j \in 1..(Len(L) - 1) : L[j + 1] > L[j] + 1}}

\* C33: the live sender logs a global-sequence gap for a fetch exactly when the
\* first returned seq is greater than last_sent + 1; the logged width is
\* first_seq - (last_sent + 1), the number of seqs between last_sent and
\* first_seq, none of which the session ever sends; the session continues with
\* the retained range starting at first_seq.
C33_GapLogged ==
    \A s \in Sessions :
        /\ Range(gap_log[s]) = LiveGaps(s)
        /\ Cardinality(Range(gap_log[s])) = Len(gap_log[s])
        /\ \A i \in 1..Len(gap_log[s]) :
              LET e == gap_log[s][i]
              IN /\ e.got > e.expected
                 /\ e.skipped = Cardinality(e.expected..(e.got - 1))
                 /\ \A q \in e.expected..(e.got - 1) : q \notin Range(Emitted(s))
                 /\ e.got \in Range(LiveSeqs(s))

C33_Witness ==
    /\ Len(gap_log[1]) > 0
    /\ Len(LiveSeqs(1)) >= 2
    /\ gap_log[1][1].skipped >= 1
    /\ LiveSeqs(1)[1] = delta_end[1] + 1

\* C34: the live sender's last_sent advances past a seq only after the batch
\* containing that seq was handed to the transport as a live frame: every seq
\* between the start of the live phase and last_sent was sent live, or was
\* never in a batch because the ring had evicted it.
C34_LastSentOnlyAfterSend ==
    \A s \in Sessions :
        \A q \in (delta_end[s] + 1)..last_sent[s] :
            live_pc[s] # "none" => (q \in Range(LiveSeqs(s)) \/ q \in skipped[s])

\* the i-th row of the playback input as _append stamps it
Stamped(q) ==
    [seq |-> q, series_id |-> samples[q],
     series_seq |-> IF samples[q] = "" THEN 0
                    ELSE Cardinality({i \in 1..q : samples[i] = samples[q]})]

\* the live samples session s was sent, in order
LiveSamples(s) ==
    LET fs == FramesOf(s, "live")
        F[i \in 0..Len(fs)] == IF i = 0 THEN <<>> ELSE F[i - 1] \o fs[i].samples
    IN F[Len(fs)]

\* the last seq the live loop of session s has put in a frame
LivePut(s) ==
    IF live_pc[s] = "send"
    THEN Head_n(to_send[s], LiveBatch)[Len(Head_n(to_send[s], LiveBatch))].seq
    ELSE last_sent[s]

\* C35: per-series gap accounting is observation only: whatever it has counted,
\* the live frames hold exactly the retained samples after resume_from, in seq
\* order and with the fields they were appended with, last_sent is the last
\* seq sent, and the rest of a fetch is the range that follows last_sent.
C35_AccountingObservesOnly ==
    \A s \in Sessions :
        live_pc[s] # "none" =>
            /\ \A i \in 1..Len(LiveSamples(s)) :
                  LiveSamples(s)[i] = Stamped(LiveSamples(s)[i].seq)
            /\ StrictlyIncreasing(LiveSeqs(s))
            /\ Range(LiveSeqs(s)) = ((delta_end[s] + 1)..LivePut(s)) \ skipped[s]
            /\ live_pc[s] # "send" =>
                  last_sent[s] = IF Len(LiveSeqs(s)) > 0
                                 THEN LiveSeqs(s)[Len(LiveSeqs(s))] ELSE delta_end[s]
            /\ (live_pc[s] = "flush" /\ Len(to_send[s]) > 0) =>
                  \A i \in 1..Len(to_send[s]) :
                      to_send[s][i] = Stamped(last_sent[s] + i)

C35_Witness ==
    /\ series_state[1]["a"].missed > 0
    /\ series_state[1]["a"].gaps >= 1
    /\ Len(LiveSeqs(1)) >= 2
    /\ live_pc[1] = "flush"

\* the series_seqs in 1..n of series sid that session s was not sent in any
\* history, delta or live frame
NotSent(s, sid, n) ==
    {k \in 1..n : ~\E x \in SamplesSent(s, DataTypes) :
                        x.series_id = sid /\ x.series_seq = k}

\* C36: for every session and series, the missed count of the live sender
\* never exceeds the number of the series' samples with series_seq in 1..prev
\* that the session was not sent; a series whose earlier samples were all
\* delivered in history or delta frames has missed = 0.
C36_MissedBounded ==
    \A s \in Sessions : \A sid \in AllSeries \ {""} :
        LET st == series_state[s][sid]
        IN st.prev # None => st.missed <= Cardinality(NotSent(s, sid, st.prev))

\* C37: playback of a finite input of n samples into an empty ring terminates
\* in both modes; the i-th input sample gets seq = i with its content, the
\* input is appended in order, the input list is left unmodified, and the
\* playback ends with done = true and final_seq = n.
C37_PlaybackCompletes ==
    /\ <>done
    /\ [](done => (idx = Len(samples) /\ final_seq = Len(samples)
                       /\ next_seq = Len(samples) + 1))
    /\ [](next_seq = idx + 1)
    /\ [](\A i \in 1..Len(ring) : ring[i] = Stamped(ring[i].seq))
    /\ [][samples' = samples]_vars

C37_Witness ==
    /\ done /\ final_seq = MaxAppends
    /\ Len(samples) = MaxAppends
    /\ samples[1] # samples[2] /\ samples[2] = samples[3]
    /\ Len(ring) = ring_capacity

\* the rows of the table that were converted into samples
Converted == Range(db_log)

\* C38: the live tailer never appends the same source row twice: the cursor
\* never decreases, a poll only returns rows with a timestamp strictly
\* greater than the cursor, and each row is converted at most once.
C38_NoRowTwice ==
    [][/\ db_cursor' >= db_cursor
       /\ \A i \in (Len(db_log) + 1)..Len(db_log') :
             \E r \in db_table : r.id = db_log'[i] /\ r.ts > db_cursor
       /\ \A i \in 1..Len(db_log') : \A j \in 1..Len(db_log') :
             i # j => db_log'[i] # db_log'[j]
       /\ Len(db_log') = LastSeq']_vars

C38_Witness ==
    /\ Len(db_log) = MaxAppends
    /\ db_cursor = MaxTs
    /\ \E r \in db_table : r.ts = 1

\* C39: the live tailer eventually appends every row that appears in the
\* polled table after it started, including rows that share a timestamp with
\* the last row of a poll that hit the row limit and rows inserted with a
\* timestamp not greater than the cursor.
C39_EveryRowAppended ==
    \A id \in 1..MaxAppends :
        (\E r \in db_table : r.id = id) ~> (id \in Converted)

============================================================================
